---- MODULE Spec2Model ----
(***************************************************************************)
(* A model of the test harness of skiplang/skip:                           *)
(*   - RunCommand of src/runtime/tools/common.py (command runner, result   *)
(*     ledger, baseline comparator) over a small file system;              *)
(*   - run_test_program / check_result of tests/src/frontend/verify.py     *)
(*     (the parallel verifier) over a thread pool.                         *)
(* File names are sequences of lexical atoms ("a", ".", "sk", "_err"), so  *)
(* that splitext, endswith and the '%s.%s.%s' naming are computed as the   *)
(* code computes them.  File contents are sequences of characters.         *)
(***************************************************************************)
EXTENDS Integers, Sequences, FiniteSets, TLC

VARIABLES
    fs,        \* the file system: a function from the paths that exist to their content
    ARGS,      \* common.ARGS as left by parse_args
    run,       \* the RunCommand whose constructor is executing a command, or NoCmd
    pc,        \* where that constructor is: "idle", "opened" (artifact files open), "running" (child alive)
    obj,       \* the RunCommand object the caller holds (from a finished run or fromArtifacts), or NoCmd
    last,      \* the last operation completed and what it returned
    spawned,   \* number of child processes spawned by RunCommand
    runs,      \* number of RunCommand constructions that were given a command
    producer,  \* for each artifact file, the construction (by its number) that opened it last
    dirs,      \* the directories that exist
    files,     \* verify.py: the list of test files passed to run_test_program
    max_workers, \* verify.py: the worker bound of the pool
    queue,     \* verify.py: the executor's work queue (indices into files)
    workers,   \* verify.py: the pool's threads, each idle or at a step of run(f)
    futures,   \* verify.py: the future of each submitted file
    main,      \* verify.py: the position of run_test_program's own thread
    completion, \* verify.py: the files in the order their futures completed
    tree,      \* verify.py: the root given as test_path and the directory entries around it
    exit_code, \* verify.py: the exit status of the command-line run, Running until it ends
    perf,      \* the profile log: ARGS.profile, the files at that path, the processes logging to it
    tee,       \* a child whose stdout a StreamTee copies, and the RunCommand waiting for it
    tmp        \* the temporary files and directories of a with block

rcVars == <<fs, ARGS, run, pc, obj, last, spawned, runs, producer, dirs>>
ghVars == <<runs, producer, dirs>>
mnVars == <<tree, exit_code>>
vfVars == <<files, max_workers, queue, workers, futures, main, completion, tree, exit_code>>
auxVars == <<perf, tee, tmp>>
vars == <<fs, ARGS, run, pc, obj, last, spawned, runs, producer, dirs, files, max_workers, queue, workers, futures, main, completion, tree, exit_code, perf, tee, tmp>>

(***************************************************************************)
(* Bounds of the model.                                                    *)
(***************************************************************************)
\* longest file content, in characters
MaxLen == 1
\* RunCommand constructions with a command in a behaviour
MaxRuns == 2
\* longest list of test files handed to run_test_program
MaxFiles == 2
\* largest max_workers tried
MaxWorkers == 2

(***************************************************************************)
(* Paths.                                                                  *)
(***************************************************************************)
\* index of the last "." that splitext splits at (0: no extension); a leading
\* dot does not start an extension
LastDot(atoms) ==
    LET dots == {i \in 2..Len(atoms) : atoms[i] = "."}
    IN  IF dots = {} THEN 0 ELSE CHOOSE i \in dots : \A j \in dots : j <= i

\* os.path.splitext(p)[0]
SplitExtRoot(atoms) ==
    IF LastDot(atoms) = 0 THEN atoms ELSE SubSeq(atoms, 1, LastDot(atoms) - 1)

\* os.path.splitext(p)[1]
SplitExtExt(atoms) ==
    IF LastDot(atoms) = 0 THEN <<>> ELSE SubSeq(atoms, LastDot(atoms), Len(atoms))

StartsWith(s, prefix) ==
    Len(s) >= Len(prefix) /\ SubSeq(s, 1, Len(prefix)) = prefix

EndsWith(s, suffix) ==
    Len(s) >= Len(suffix) /\ SubSeq(s, Len(s) - Len(suffix) + 1, Len(s)) = suffix

\* path + suffix, for a path in a directory
Plus(path, suffix) == [dir |-> path.dir, atoms |-> path.atoms \o suffix]

RegexExt == <<".", "expectregex">>
DefaultExpExt == <<".", "exp">>

backendName(name, ext, backend) ==
    IF backend # ""
    THEN Plus(name, <<".", backend, ".", ext>>)
    ELSE Plus(name, <<".", ext>>)

\* RunCommand._computeDstWithoutExt: a test below the binary directory keeps
\* its path, any other is mapped from the source tree into the binary tree
_computeDstWithoutExt(test) ==
    LET path == IF test.dir = "bin" THEN test ELSE [dir |-> "bin", atoms |-> test.atoms]
    IN  [dir |-> path.dir, atoms |-> SplitExtRoot(path.atoms)]

SourceWithoutExt(test) == [dir |-> test.dir, atoms |-> SplitExtRoot(test.atoms)]

exists(fsys, path) == path \in DOMAIN fsys

\* open(path, 'w'): create or truncate, then write data
WriteFile(fsys, path, data) ==
    [p \in (DOMAIN fsys) \cup {path} |-> IF p = path THEN data ELSE fsys[p]]

(***************************************************************************)
(* The ledger's JSON text.  A Python value is written as a JSON token and  *)
(* read back from it; the text of an object is its keys and value tokens.  *)
(***************************************************************************)
NoneTime == -1

JsonNumbers == 0 .. 9

JsonOfBool(b) == IF b THEN "true" ELSE "false"
JsonOfNumber(n) == ToString(n)
JsonOfTime(t) == IF t = NoneTime THEN "null" ELSE ToString(t)

BoolOfJson(tok) == tok = "true"
NumberOfJson(tok) == CHOOSE n \in JsonNumbers : ToString(n) = tok
TimeOfJson(tok) == IF tok = "null" THEN NoneTime ELSE NumberOfJson(tok)

\* json.dump of the record written at the end of RunCommand.__init__
LedgerText(c) ==
    << "returncode", JsonOfNumber(c.returncode),
       "time_taken", JsonOfTime(c.time_taken),
       "expectError", JsonOfBool(c.expectError),
       "testReportsOk", JsonOfBool(c.testReportsOk),
       "testHasExpect", JsonOfBool(c.testHasExpect) >>

\* json.load: empty text is not a JSON document
JsonLoads(text) == Len(text) > 0 /\ Len(text) % 2 = 0

JsonKeys(text) == {text[2 * i - 1] : i \in 1..(Len(text) \div 2)}

JsonGet(text, key) ==
    text[2 * (CHOOSE i \in 1..(Len(text) \div 2) : text[2 * i - 1] = key)]

(***************************************************************************)
(* Regular expressions, as far as expectation files use them: literal      *)
(* characters, "." (any character, DOTALL), a postfix "*", and the anchors *)
(* "^" and "$" (MULTILINE).  re.match anchors the match at the start of    *)
(* the text only.                                                          *)
(***************************************************************************)
ReIsAnchor(a) == a \in {"^", "$"}

\* re.compile raises on a "*" with nothing to repeat
ReValid(p) ==
    \A i \in 1..Len(p) :
        p[i] = "*" => (i > 1 /\ p[i - 1] # "*" /\ ~ReIsAnchor(p[i - 1]))

ReCharOk(a, ch) == a = "." \/ a = ch

RECURSIVE ReMatchAt(_, _, _, _)
ReMatchAt(p, i, t, j) ==
    IF i > Len(p) THEN TRUE
    ELSE IF i < Len(p) /\ p[i + 1] = "*"
    THEN \/ ReMatchAt(p, i + 2, t, j)
         \/ (j <= Len(t) /\ ReCharOk(p[i], t[j]) /\ ReMatchAt(p, i, t, j + 1))
    ELSE IF p[i] = "^"
    THEN (j = 1 \/ t[j - 1] = "\n") /\ ReMatchAt(p, i + 1, t, j)
    ELSE IF p[i] = "$"
    THEN (j = Len(t) + 1 \/ t[j] = "\n") /\ ReMatchAt(p, i + 1, t, j)
    ELSE j <= Len(t) /\ ReCharOk(p[i], t[j]) /\ ReMatchAt(p, i + 1, t, j + 1)

\* re.match(p, t, flags=re.DOTALL + re.MULTILINE) is not None
ReMatch(p, t) == ReMatchAt(p, 1, t, 1)

(***************************************************************************)
(* parse_args and the backend.                                             *)
(***************************************************************************)
\* parse_args with the test of UPDATE_BASELINE inverted
parse_args_EnvInverted(flag, env, backend_gen) ==
    [update_baseline |-> IF env = "" THEN TRUE ELSE flag,
     backend_gen |-> backend_gen,
     flag |-> flag,
     env |-> env]

\* ARGS.update_baseline after parse_args: the --update-baseline flag
\* (store_true, default False), forced on by a non-empty UPDATE_BASELINE
parse_args(flag, env, backend_gen) ==
    [update_baseline |-> IF env # "" THEN TRUE ELSE flag,
     backend_gen |-> backend_gen,
     flag |-> flag,
     env |-> env]

\* getShortBackend for the backend generators it knows; None is ""
getShortBackend(args) ==
    IF args.backend_gen = "" THEN "" ELSE "native"

(***************************************************************************)
(* RunCommand.                                                             *)
(***************************************************************************)
NoCmd == [none |-> TRUE]

\* ResolveExp in which the first existing file of the loop's order wins
ResolveExp_LiteralFirst(fsys, test, expectedExtension) ==
    LET dst_we == _computeDstWithoutExt(test)
        src_we == SourceWithoutExt(test)
        Pick(ext, sofar) ==
            IF exists(fsys, Plus(dst_we, ext)) THEN Plus(dst_we, ext)
            ELSE IF exists(fsys, Plus(src_we, ext)) THEN Plus(src_we, ext)
            ELSE sofar
    IN  Pick(expectedExtension, Pick(RegexExt, Plus(src_we, expectedExtension)))

\* ResolveExp trying the path next to the source before the one next to
\* the build artifact
ResolveExp_SourceFirst(fsys, test, expectedExtension) ==
    LET dst_we == _computeDstWithoutExt(test)
        src_we == SourceWithoutExt(test)
        Pick(ext, sofar) ==
            IF exists(fsys, Plus(src_we, ext)) THEN Plus(src_we, ext)
            ELSE IF exists(fsys, Plus(dst_we, ext)) THEN Plus(dst_we, ext)
            ELSE sofar
    IN  Pick(RegexExt, Pick(expectedExtension, Plus(src_we, expectedExtension)))

\* the expectation file chosen by the loop of _computeFilenames: the inner
\* loop stops at the first existing path, the outer loop goes on to the
\* next extension
ResolveExp(fsys, test, expectedExtension) ==
    LET dst_we == _computeDstWithoutExt(test)
        src_we == SourceWithoutExt(test)
        Pick(ext, sofar) ==
            IF exists(fsys, Plus(dst_we, ext)) THEN Plus(dst_we, ext)
            ELSE IF exists(fsys, Plus(src_we, ext)) THEN Plus(src_we, ext)
            ELSE sofar
    IN  Pick(RegexExt, Pick(expectedExtension, Plus(src_we, expectedExtension)))

_computeFilenames(fsys, test, backend, expectedExtension) ==
    LET dst_we == _computeDstWithoutExt(test)
    IN  [res_name |-> backendName(dst_we, "res", backend),
         stdout_name |-> backendName(dst_we, "out", backend),
         stderr_name |-> backendName(dst_we, "err", backend),
         testok_name |-> backendName(dst_we, "testok", backend),
         failing_name |-> backendName(dst_we, "testfail", backend),
         exp_name |-> ResolveExp(fsys, test, expectedExtension)]

\* backend or getShortBackend()
EffectiveBackend(args, backendArg) ==
    IF backendArg # "" THEN backendArg ELSE getShortBackend(args)

\* RunCommand._computeResName
_computeResName(test, backend) ==
    backendName(_computeDstWithoutExt(test), "res", backend)

\* Construct that does not look for the _failure marker
Construct_IgnoresFailureMarker(fsys, args, test, backendArg, testReportsOk, expectError, testHasExpect, manual) ==
    LET backend == EffectiveBackend(args, backendArg)
        names == _computeFilenames(fsys, test, backend, DefaultExpExt)
    IN  [test |-> test,
         backend |-> backend,
         testReportsOk |-> testReportsOk,
         expectError |-> expectError,
         testHasExpect |-> testHasExpect /\ ~testReportsOk,
         manual_update_baseline |-> manual,
         returncode |-> 1,
         expectedExtension |-> DefaultExpExt,
         time_taken |-> NoneTime,
         res_name |-> names.res_name,
         stdout_name |-> names.stdout_name,
         stderr_name |-> names.stderr_name,
         testok_name |-> names.testok_name,
         failing_name |-> names.failing_name,
         exp_name |-> names.exp_name]

\* RunCommand.__init__ down to "if not cmd: return"
Construct(fsys, args, test, backendArg, testReportsOk, expectError, testHasExpect, manual) ==
    LET backend == EffectiveBackend(args, backendArg)
        names == _computeFilenames(fsys, test, backend, DefaultExpExt)
    IN  [test |-> test,
         backend |-> backend,
         testReportsOk |-> testReportsOk,
         expectError |-> IF exists(fsys, Plus(names.exp_name, <<"_failure">>))
                         THEN TRUE ELSE expectError,
         testHasExpect |-> testHasExpect /\ ~testReportsOk,
         manual_update_baseline |-> manual,
         returncode |-> 1,
         expectedExtension |-> DefaultExpExt,
         time_taken |-> NoneTime,
         res_name |-> names.res_name,
         stdout_name |-> names.stdout_name,
         stderr_name |-> names.stderr_name,
         testok_name |-> names.testok_name,
         failing_name |-> names.failing_name,
         exp_name |-> names.exp_name]

\* RunCommand.error: the "fail" marker
error(fsys, c) == WriteFile(fsys, c.failing_name, <<"f", "a", "i", "l", "\n">>)

\* checkReturnCode without the inversion for expected errors
checkReturnCode_IgnoresExpectError(fsys, c) ==
    IF c.returncode = 0
    THEN [ret |-> TRUE, fs |-> fsys]
    ELSE [ret |-> FALSE, fs |-> error(fsys, c)]

\* RunCommand.checkReturnCode: [ret, fs]
checkReturnCode(fsys, c) ==
    LET success0 == c.returncode = 0
        success == IF c.expectError THEN ~success0 ELSE success0
    IN  IF success
        THEN [ret |-> TRUE, fs |-> fsys]
        ELSE [ret |-> FALSE, fs |-> error(fsys, c)]

\* exit status of diff -u expected actual
DiffExit(fsys, expected, actual) ==
    IF ~exists(fsys, expected) \/ ~exists(fsys, actual) THEN 2
    ELSE IF fsys[expected] = fsys[actual] THEN 0
    ELSE 1

\* IsRegexFile testing for the prefix '.exp', which '.expectregex' shares
IsRegexFile_AnyExp(expected) ==
    LET ext == SplitExtExt(expected.atoms)
    IN  Len(ext) >= 2 /\ ext[1] = "." /\ ext[2] \in {"exp", "expectregex"}

\* os.path.splitext(expected)[1].startswith('.expectregex')
IsRegexFile(expected) == StartsWith(SplitExtExt(expected.atoms), RegexExt)

\* RunCommand.diff_file: [ret, raised, fs]; ret TRUE is "different"
diff_file(fsys, c, actual, expected) ==
    LET isRegex == IsRegexFile(expected)
        byDiff == IF DiffExit(fsys, expected, actual) # 0
                  THEN [ret |-> TRUE, raised |-> FALSE, fs |-> error(fsys, c)]
                  ELSE [ret |-> FALSE, raised |-> FALSE, fs |-> fsys]
    IN  IF isRegex
        THEN IF ~exists(fsys, expected) \/ ~exists(fsys, actual) \/ ~ReValid(fsys[expected])
             THEN [ret |-> FALSE, raised |-> TRUE, fs |-> fsys]
             ELSE IF ReMatch(fsys[expected], fsys[actual])
             THEN [ret |-> FALSE, raised |-> FALSE, fs |-> fsys]
             ELSE byDiff
        ELSE byDiff

\* shutil.copyfile(src, dst)
copyfile(fsys, src, dst) == WriteFile(fsys, dst, fsys[src])

\* UpdateBaseline that reports no difference and copies nothing
UpdateBaseline_CopiesNothing(fsys, c) == [ret |-> FALSE, raised |-> FALSE, fs |-> fsys]

\* the baseline-update branch of report_diff
UpdateBaseline(fsys, c) ==
    IF ~exists(fsys, c.stderr_name)
    THEN [ret |-> FALSE, raised |-> TRUE, fs |-> copyfile(fsys, c.stdout_name, c.exp_name)]
    ELSE [ret |-> FALSE, raised |-> FALSE,
          fs |-> IF fsys[c.stderr_name] # <<>>
                 THEN copyfile(copyfile(fsys, c.stdout_name, c.exp_name),
                               c.stderr_name, Plus(c.exp_name, <<"_err">>))
                 ELSE copyfile(fsys, c.stdout_name, c.exp_name)]

\* UpdateWanted without the exclusion of .expectregex files
UpdateWanted_RegexToo(args, c) ==
    /\ args.update_baseline
    /\ ~c.manual_update_baseline

\* whether report_diff takes the baseline-update branch
UpdateWanted(args, c) ==
    /\ args.update_baseline
    /\ ~c.manual_update_baseline
    /\ ~EndsWith(c.exp_name.atoms, RegexExt)

\* Compare that does not look at stderr when there is no _err sidecar
Compare_IgnoresStderr(fsys, c) ==
    LET out == diff_file(fsys, c, c.stdout_name, c.exp_name)
        sidecar == Plus(c.exp_name, <<"_err">>)
    IN  IF ~exists(fsys, c.exp_name)
        THEN [ret |-> TRUE, raised |-> FALSE, fs |-> fsys]
        ELSE IF out.raised \/ out.ret THEN out
        ELSE IF exists(fsys, sidecar)
        THEN diff_file(out.fs, c, c.stderr_name, sidecar)
        ELSE out

\* Compare that takes a missing expectation file for an empty one
Compare_MissingIsEmpty(fsys, c) ==
    LET out == diff_file(fsys, c, c.stdout_name, c.exp_name)
        sidecar == Plus(c.exp_name, <<"_err">>)
    IN  IF ~exists(fsys, c.exp_name)
        THEN [ret |-> \/ fsys[c.stdout_name] # <<>>
                      \/ (exists(fsys, c.stderr_name) /\ fsys[c.stderr_name] # <<>>),
              raised |-> FALSE, fs |-> fsys]
        ELSE IF out.raised \/ out.ret THEN out
        ELSE IF exists(fsys, sidecar)
        THEN diff_file(out.fs, c, c.stderr_name, sidecar)
        ELSE IF ~exists(fsys, c.stderr_name)
        THEN [ret |-> FALSE, raised |-> TRUE, fs |-> out.fs]
        ELSE [ret |-> fsys[c.stderr_name] # <<>>, raised |-> FALSE, fs |-> out.fs]

\* the comparison of report_diff, from "if not os.path.exists(self.exp_name)"
Compare(fsys, c) ==
    LET out == diff_file(fsys, c, c.stdout_name, c.exp_name)
        sidecar == Plus(c.exp_name, <<"_err">>)
    IN  IF ~exists(fsys, c.exp_name)
        THEN [ret |-> TRUE, raised |-> FALSE, fs |-> fsys]
        ELSE IF out.raised \/ out.ret THEN out
        ELSE IF exists(fsys, sidecar)
        THEN diff_file(out.fs, c, c.stderr_name, sidecar)
        ELSE IF ~exists(fsys, c.stderr_name)
        THEN [ret |-> FALSE, raised |-> TRUE, fs |-> out.fs]
        ELSE [ret |-> fsys[c.stderr_name] # <<>>, raised |-> FALSE, fs |-> out.fs]

\* RunCommand.report_diff: [ret, raised, fs]; ret TRUE is "different"
report_diff(fsys, args, c) ==
    IF c.testReportsOk THEN [ret |-> FALSE, raised |-> FALSE, fs |-> fsys]
    ELSE IF ~c.testHasExpect THEN [ret |-> FALSE, raised |-> FALSE, fs |-> fsys]
    ELSE IF ~exists(fsys, c.stdout_name) THEN [ret |-> TRUE, raised |-> FALSE, fs |-> fsys]
    ELSE IF UpdateWanted(args, c) THEN UpdateBaseline(fsys, c)
    ELSE Compare(fsys, c)

\* LoadRecord leaving expectError as the constructor set it
LoadRecord_KeepsExpectError(c, text) ==
    [c EXCEPT !.testReportsOk = BoolOfJson(JsonGet(text, "testReportsOk")),
              !.testHasExpect = BoolOfJson(JsonGet(text, "testHasExpect")),
              !.returncode = NumberOfJson(JsonGet(text, "returncode")),
              !.time_taken = TimeOfJson(JsonGet(text, "time_taken"))]

\* LoadRecord that keeps the constructor's testHasExpect when the record
\* has none
LoadRecord_MissingHasExpect(c, text) ==
    [c EXCEPT !.testReportsOk = BoolOfJson(JsonGet(text, "testReportsOk")),
              !.expectError = BoolOfJson(JsonGet(text, "expectError")),
              !.testHasExpect = IF "testHasExpect" \in JsonKeys(text)
                                THEN BoolOfJson(JsonGet(text, "testHasExpect"))
                                ELSE c.testHasExpect,
              !.returncode = NumberOfJson(JsonGet(text, "returncode")),
              !.time_taken = IF "time_taken" \in JsonKeys(text)
                             THEN TimeOfJson(JsonGet(text, "time_taken"))
                             ELSE NoneTime]

\* the fields fromArtifacts takes from the ledger's record
LoadRecord(c, text) ==
    LET hasExpect == IF "testHasExpect" \in JsonKeys(text)
                     THEN BoolOfJson(JsonGet(text, "testHasExpect"))
                     ELSE ~BoolOfJson(JsonGet(text, "testReportsOk"))
    IN  [c EXCEPT !.testReportsOk = BoolOfJson(JsonGet(text, "testReportsOk")),
                  !.expectError = BoolOfJson(JsonGet(text, "expectError")),
                  !.testHasExpect = hasExpect,
                  !.returncode = NumberOfJson(JsonGet(text, "returncode")),
                  !.time_taken = IF "time_taken" \in JsonKeys(text)
                                 THEN TimeOfJson(JsonGet(text, "time_taken"))
                                 ELSE NoneTime]

\* MissingRecord without the else branch: the constructor's returncode stays
MissingRecord_KeepsDefault(c) == c

\* the record fromArtifacts makes up when there is no ledger
MissingRecord(c) == [c EXCEPT !.returncode = 127]

\* RunCommand.fromArtifacts: [raised, obj]
fromArtifacts(fsys, args, test, backend) ==
    LET c == Construct(fsys, args, test, backend, FALSE, FALSE, TRUE, FALSE)
    IN  IF exists(fsys, c.res_name)
        THEN IF ~JsonLoads(fsys[c.res_name])
             THEN [raised |-> TRUE, obj |-> NoCmd]
             ELSE [raised |-> FALSE, obj |-> LoadRecord(c, fsys[c.res_name])]
        ELSE [raised |-> FALSE, obj |-> MissingRecord(c)]

\* cmd of a construction that executes nothing (None or an empty list), and
\* a command
NoCommand == <<>>
Command == <<"prog">>

\* __init__ after "if not cmd: return": ensureDirPathExists of the
\* artifacts' directory
EnsureDir(ds, c, cmd) ==
    IF cmd = NoCommand THEN ds ELSE ds \cup {c.res_name.dir}

\* OpenArtifacts that opens the files whatever cmd is
OpenArtifacts_AlwaysOpens(fsys, c, cmd) ==
    WriteFile(WriteFile(WriteFile(fsys, c.stdout_name, <<>>), c.stderr_name, <<>>),
              c.res_name, <<>>)

\* __init__ after "if not cmd: return": stdout, stderr and the ledger are
\* opened for writing, which creates or truncates them
OpenArtifacts(fsys, c, cmd) ==
    IF cmd = NoCommand THEN fsys
    ELSE WriteFile(WriteFile(WriteFile(fsys, c.stdout_name, <<>>), c.stderr_name, <<>>),
                   c.res_name, <<>>)

\* Opened that leaves the ledger's stdout and stderr to the run before
Opened_LedgerOnly(prod, c, cmd, n) ==
    IF cmd = NoCommand THEN prod
    ELSE [q \in (DOMAIN prod) \cup {c.stdout_name, c.stderr_name, c.res_name} |->
             IF q = c.res_name \/ q \notin DOMAIN prod THEN n ELSE prod[q]]

\* the files the n-th construction opened, recorded as its
Opened(prod, c, cmd, n) ==
    IF cmd = NoCommand THEN prod
    ELSE LET names == {c.stdout_name, c.stderr_name, c.res_name}
         IN  [q \in (DOMAIN prod) \cup names |-> IF q \in names THEN n ELSE prod[q]]

(***************************************************************************)
(* Inputs.                                                                 *)
(***************************************************************************)
Chars == {"a"}

\* the texts of at most n characters
RECURSIVE TextsUpTo(_)
TextsUpTo(n) ==
    IF n = 0 THEN {<<>>}
    ELSE TextsUpTo(n - 1) \cup {Append(t, ch) : t \in {u \in TextsUpTo(n - 1) : Len(u) = n - 1}, ch \in Chars}

Contents == TextsUpTo(MaxLen)

TestA == [dir |-> "src", atoms |-> <<"a", ".", "sk">>]

ExitCodes == {0, 1}
Times == {2}

\* what the operations of a behaviour draw their arguments from
LedgerInputs ==
    [tests |-> {TestA}, backends |-> {"", "native"},
     reportsOk |-> BOOLEAN, expectError |-> BOOLEAN, hasExpect |-> BOOLEAN,
     manual |-> {FALSE}, rcs |-> ExitCodes, times |-> Times,
     outs |-> {<<"a">>}, errs |-> {<<>>}]

DiffInputs ==
    [tests |-> {TestA}, backends |-> {""},
     reportsOk |-> BOOLEAN, expectError |-> {FALSE}, hasExpect |-> BOOLEAN,
     manual |-> BOOLEAN, rcs |-> {0}, times |-> {1},
     outs |-> Contents, errs |-> Contents]

(***************************************************************************)
(* The operations on RunCommand, as steps.                                 *)
(***************************************************************************)
Done(op, target, ret, raised, wrote) ==
    [op |-> op, target |-> target, ret |-> ret, raised |-> raised, wrote |-> wrote]

\* the test and backend an operation is about
Target(test, backend) == [test |-> test, backend |-> backend]
TargetOf(c) == Target(c.test, c.backend)
NoTarget == [none |-> TRUE]

\* the paths an operation created or changed
Wrote(before, after) ==
    {p \in DOMAIN after : ~exists(before, p) \/ before[p] # after[p]}

\* RunCommand.__init__ with a command, down to the opening of the artifact
\* files: stdout, stderr and the ledger are created or truncated
RunOpen(U) ==
    /\ pc = "idle"
    /\ runs < MaxRuns
    /\ \E test \in U.tests, backend \in U.backends, ro \in U.reportsOk,
          ee \in U.expectError, he \in U.hasExpect, mu \in U.manual :
          LET c == Construct(fs, ARGS, test, backend, ro, ee, he, mu)
              opened == OpenArtifacts(fs, c, Command)
          IN  /\ run' = c
              /\ fs' = opened
              /\ dirs' = EnsureDir(dirs, c, Command)
              /\ producer' = Opened(producer, c, Command, runs + 1)
              /\ last' = Done("open", TargetOf(c), FALSE, FALSE, Wrote(fs, opened))
    /\ runs' = runs + 1
    /\ pc' = "opened"
    /\ obj' = NoCmd
    /\ UNCHANGED <<ARGS, spawned>>
    /\ UNCHANGED vfVars
    /\ UNCHANGED auxVars

\* subprocess.Popen succeeds: the child is alive
Spawn ==
    /\ pc = "opened"
    /\ pc' = "running"
    /\ spawned' = spawned + 1
    /\ last' = Done("spawn", TargetOf(run), FALSE, FALSE, {})
    /\ UNCHANGED <<fs, ARGS, run, obj>>
    /\ UNCHANGED ghVars
    /\ UNCHANGED vfVars
    /\ UNCHANGED auxVars

\* subprocess.Popen raises: the with block closes the files and the
\* constructor raises, no object is returned
SpawnFail ==
    /\ pc = "opened"
    /\ pc' = "idle"
    /\ run' = NoCmd
    /\ last' = Done("run", TargetOf(run), FALSE, TRUE, {})
    /\ UNCHANGED <<fs, ARGS, obj, spawned>>
    /\ UNCHANGED ghVars
    /\ UNCHANGED vfVars
    /\ UNCHANGED auxVars

\* the child writes its output and exits; p.wait, the join of the tee and
\* json.dump of the record
RunFinish(U) ==
    /\ pc = "running"
    /\ \E rc \in U.rcs, t \in U.times, out \in U.outs, err \in U.errs :
          LET c == [run EXCEPT !.returncode = rc, !.time_taken = t]
              written == WriteFile(WriteFile(WriteFile(fs, c.stdout_name, out),
                                             c.stderr_name, err), c.res_name, LedgerText(c))
          IN  /\ obj' = c
              /\ fs' = written
              /\ last' = Done("run", TargetOf(c), FALSE, FALSE, Wrote(fs, written))
    /\ run' = NoCmd
    /\ pc' = "idle"
    /\ UNCHANGED <<ARGS, spawned>>
    /\ UNCHANGED ghVars
    /\ UNCHANGED vfVars
    /\ UNCHANGED auxVars

FromArtifacts(U) ==
    /\ \E test \in U.tests, backend \in U.backends :
          LET r == fromArtifacts(fs, ARGS, test, backend)
              c == Construct(fs, ARGS, test, backend, FALSE, FALSE, TRUE, FALSE)
              opened == OpenArtifacts(fs, c, NoCommand)
          IN  /\ obj' = IF r.raised THEN obj ELSE r.obj
              /\ fs' = opened
              /\ dirs' = EnsureDir(dirs, c, NoCommand)
              /\ producer' = Opened(producer, c, NoCommand, runs + 1)
              /\ last' = Done("fromArtifacts", Target(test, EffectiveBackend(ARGS, backend)),
                            FALSE, r.raised, Wrote(fs, opened))
    /\ UNCHANGED <<ARGS, run, pc, spawned, runs>>
    /\ UNCHANGED vfVars
    /\ UNCHANGED auxVars

CheckReturnCode ==
    /\ obj # NoCmd
    /\ LET r == checkReturnCode(fs, obj)
       IN  /\ fs' = r.fs
           /\ last' = Done("checkReturnCode", TargetOf(obj), r.ret, FALSE, Wrote(fs, r.fs))
    /\ UNCHANGED <<ARGS, run, pc, obj, spawned>>
    /\ UNCHANGED ghVars
    /\ UNCHANGED vfVars
    /\ UNCHANGED auxVars

ReportDiff ==
    /\ obj # NoCmd
    /\ LET r == report_diff(fs, ARGS, obj)
       IN  /\ fs' = r.fs
           /\ last' = Done("report_diff", TargetOf(obj), r.ret, r.raised, Wrote(fs, r.fs))
    /\ UNCHANGED <<ARGS, run, pc, obj, spawned>>
    /\ UNCHANGED ghVars
    /\ UNCHANGED vfVars
    /\ UNCHANGED auxVars

\* diff_file called on its own, on the captured stdout and the expectation
DiffFile ==
    /\ obj # NoCmd
    /\ LET r == diff_file(fs, obj, obj.stdout_name, obj.exp_name)
       IN  /\ fs' = r.fs
           /\ last' = Done("diff_file", TargetOf(obj), r.ret, r.raised, Wrote(fs, r.fs))
    /\ UNCHANGED <<ARGS, run, pc, obj, spawned>>
    /\ UNCHANGED ghVars
    /\ UNCHANGED vfVars
    /\ UNCHANGED auxVars

(***************************************************************************)
(* Initial states.                                                         *)
(***************************************************************************)
\* no process logs profiling data, no tee runs, no with block is entered
NoPerf == [none |-> TRUE]
NoTee == [none |-> TRUE]
NoTmp == [none |-> TRUE]
AuxOff ==
    /\ perf = NoPerf
    /\ tee = NoTee
    /\ tmp = NoTmp

\* no test_path has been looked at
NoTree == [root |-> <<>>, entries |-> {}]

\* the command-line run of verify.py has not ended
Running == -1

VerifierOff ==
    /\ files = <<>>
    /\ max_workers = 1
    /\ queue = <<>>
    /\ workers = <<>>
    /\ futures = <<>>
    /\ main = [pc |-> "off", i |-> 1, results |-> <<>>]
    /\ completion = <<>>
    /\ tree = NoTree
    /\ exit_code = Running

\* the file systems holding files of the given paths only, with the given contents
FileSystems(paths, contents) ==
    UNION {[S -> contents] : S \in SUBSET paths}

InitRunCommand(layouts, cli) ==
    /\ fs \in layouts
    /\ \E a \in cli : ARGS = parse_args(a[1], a[2], a[3])
    /\ run = NoCmd
    /\ pc = "idle"
    /\ obj = NoCmd
    /\ last = Done("init", NoTarget, FALSE, FALSE, {})
    /\ spawned = 0
    /\ runs = 0
    /\ producer = <<>>
    /\ dirs = {"src"} \cup {q.dir : q \in DOMAIN fs}
    /\ VerifierOff
    /\ AuxOff

\* expectation files of the tests of the ledger's inputs: existence matters
LedgerLayouts ==
    FileSystems({Plus(SourceWithoutExt(TestA), DefaultExpExt \o <<"_failure">>)},
                {<<>>})

\* expectation files of the comparator's test: content matters
DiffLayouts ==
    FileSystems({Plus(SourceWithoutExt(TestA), DefaultExpExt),
                 Plus(SourceWithoutExt(TestA), DefaultExpExt \o <<"_err">>)},
                Contents)
    \cup FileSystems({Plus(SourceWithoutExt(TestA), RegexExt)}, Contents)

(***************************************************************************)
(* The parallel verifier (tests/src/frontend/verify.py).                   *)
(***************************************************************************)
\* os.path.abspath('skip/') where it occurs in a program's output
RootPath == "/abs/skip"
Placeholder == "<<root>>"
Whitespace == {"\n", " "}

\* str.replace(RootPath, Placeholder)
ReplaceRoot(text) ==
    [k \in 1..Len(text) |-> IF text[k] = RootPath THEN Placeholder ELSE text[k]]

\* str.rstrip()
RECURSIVE rstrip(_)
rstrip(text) ==
    IF text # <<>> /\ text[Len(text)] \in Whitespace
    THEN rstrip(SubSeq(text, 1, Len(text) - 1))
    ELSE text

\* what run(f) hands to check_result
NormalizeOutput(output) == rstrip(ReplaceRoot(output))

NoFailure == [none |-> TRUE]
Failure(fname, expected, output) == [fname |-> fname, expected |-> expected, output |-> output]

\* an expectation file as open() finds it
Missing == [state |-> "missing"]
Unreadable == [state |-> "unreadable"]
Readable(text) == [state |-> "text", text |-> text]

\* check_result: the expected text is the stripped file, '' when it is missing
ExpectedText(expfile) ==
    IF expfile.state = "missing" THEN <<>> ELSE rstrip(expfile.text)

\* check_result that takes a missing expectation file for a failure
check_result_MissingFails(fname, expfile, out) ==
    IF expfile.state = "missing" \/ ExpectedText(expfile) # out
    THEN Failure(fname, ExpectedText(expfile), out)
    ELSE NoFailure

check_result(fname, expfile, out) ==
    IF ExpectedText(expfile) # out
    THEN Failure(fname, ExpectedText(expfile), out)
    ELSE NoFailure

\* run(f) that takes a nonzero exit code for a failure
run_result_FailsOnExitCode(fname, rc, output, expfile) ==
    IF rc # 0
    THEN Failure(fname, ExpectedText(expfile), NormalizeOutput(output))
    ELSE check_result(fname, expfile, NormalizeOutput(output))

\* what run(f) returns for a program that exited with rc and output: the
\* exit code is dropped with the CalledProcessError
run_result(fname, rc, output, expfile) ==
    check_result(fname, expfile, NormalizeOutput(output))

\* outputs of the tested program and expectation files the verifier meets
ProgramOutputs == {<<>>, <<"a">>, <<"a", "\n">>, <<RootPath>>}
ExpectationFiles ==
    {Missing, Unreadable, Readable(<<"a", "\n">>), Readable(<<Placeholder>>)}
ProgramExitCodes == {0, 1}

Pending == [state |-> "pending"]
Returned(result) == [state |-> "returned", result |-> result]
Raised == [state |-> "raised"]

Idle == [st |-> "idle"]

\* AdjustThreadCount that adds a thread for every submitted item
AdjustThreadCount_Unbounded(ws) == Append(ws, Idle)

\* ThreadPoolExecutor._adjust_thread_count: a thread is added while the pool
\* has fewer than max_workers
AdjustThreadCount(ws) ==
    IF Len(ws) < max_workers THEN Append(ws, Idle) ELSE ws

\* executor.submit(run, f) for the next file; after the last one the main
\* thread turns to the futures
Submit ==
    /\ main.pc = "submit"
    /\ main.i <= Len(files)
    /\ queue' = Append(queue, main.i)
    /\ workers' = AdjustThreadCount(workers)
    /\ main' = [main EXCEPT !.i = main.i + 1]
    /\ UNCHANGED <<files, max_workers, futures, completion>>
    /\ UNCHANGED mnVars
    /\ UNCHANGED rcVars
    /\ UNCHANGED auxVars

SubmitDone ==
    /\ main.pc = "submit"
    /\ main.i > Len(files)
    /\ main' = [main EXCEPT !.pc = "collect", !.i = 1]
    /\ UNCHANGED <<files, max_workers, queue, workers, futures, completion>>
    /\ UNCHANGED mnVars
    /\ UNCHANGED rcVars
    /\ UNCHANGED auxVars

\* a pool thread takes the oldest work item and run(f) starts the program:
\* subprocess.check_output has spawned the child
WorkerStart(w) ==
    /\ workers[w].st = "idle"
    /\ queue # <<>>
    /\ workers' = [workers EXCEPT ![w] = [st |-> "exec", i |-> Head(queue)]]
    /\ queue' = Tail(queue)
    /\ UNCHANGED <<files, max_workers, futures, main, completion>>
    /\ UNCHANGED mnVars
    /\ UNCHANGED rcVars
    /\ UNCHANGED auxVars

\* ... or check_output raises something other than CalledProcessError (the
\* child cannot be spawned, its output cannot be decoded): run(f) raises
WorkerStartError(w) ==
    /\ workers[w].st = "idle"
    /\ queue # <<>>
    /\ futures' = [futures EXCEPT ![Head(queue)] = Raised]
    /\ completion' = Append(completion, Head(queue))
    /\ queue' = Tail(queue)
    /\ UNCHANGED <<files, max_workers, workers, main>>
    /\ UNCHANGED mnVars
    /\ UNCHANGED rcVars
    /\ UNCHANGED auxVars

\* the child exits with some code and output (a nonzero code raises
\* CalledProcessError, which run(f) catches and takes e.output from), and
\* check_result compares the output with the expectation file; reading that
\* file raises unless the error is FileNotFoundError
ProgramExit(w) ==
    /\ workers[w].st = "exec"
    /\ \E rc \in ProgramExitCodes, output \in ProgramOutputs, expfile \in ExpectationFiles :
          workers' = [workers EXCEPT ![w] =
                         [st |-> "return", i |-> workers[w].i, rc |-> rc,
                          output |-> output, expfile |-> expfile,
                          raised |-> expfile.state = "unreadable",
                          result |-> IF expfile.state = "unreadable"
                                     THEN NoFailure
                                     ELSE run_result(files[workers[w].i], rc, output, expfile)]]
    /\ UNCHANGED <<files, max_workers, queue, futures, main, completion>>
    /\ UNCHANGED mnVars
    /\ UNCHANGED rcVars
    /\ UNCHANGED auxVars

\* run(f) is over: the pool sets the future's result or exception
SetResult(w) ==
    /\ workers[w].st = "return"
    /\ futures' = [futures EXCEPT ![workers[w].i] =
                      IF workers[w].raised THEN Raised ELSE Returned(workers[w].result)]
    /\ completion' = Append(completion, workers[w].i)
    /\ workers' = [workers EXCEPT ![w] = Idle]
    /\ UNCHANGED <<files, max_workers, queue, main>>
    /\ UNCHANGED mnVars
    /\ UNCHANGED rcVars
    /\ UNCHANGED auxVars

\* NextFuture in completion order (as_completed): the next future that
\* finished, or a pending one to wait for
NextFuture_AsCompleted ==
    IF main.i <= Len(completion)
    THEN completion[main.i]
    ELSE CHOOSE k \in 1..Len(files) : futures[k].state = "pending"

\* the future whose result the main thread takes next: the futures are read
\* in the order of the list they were put in
NextFuture == main.i

\* f.result(): blocks until the future is done, returns its result or
\* raises what run(f) raised, which ends run_test_program
Collect ==
    /\ main.pc = "collect"
    /\ main.i <= Len(files)
    /\ LET k == NextFuture
       IN  /\ futures[k].state # "pending"
           /\ main' = IF futures[k].state = "raised"
                      THEN [main EXCEPT !.pc = "raised"]
                      ELSE [main EXCEPT !.i = main.i + 1,
                                        !.results = Append(main.results, futures[k].result)]
    /\ UNCHANGED <<files, max_workers, queue, workers, futures, completion>>
    /\ UNCHANGED mnVars
    /\ UNCHANGED rcVars
    /\ UNCHANGED auxVars

\* return [r for r in results if r is not None]
Return ==
    /\ main.pc = "collect"
    /\ main.i > Len(files)
    /\ main' = [main EXCEPT !.pc = "returned",
                            !.results = SelectSeq(main.results, LAMBDA r : r # NoFailure)]
    /\ UNCHANGED <<files, max_workers, queue, workers, futures, completion>>
    /\ UNCHANGED mnVars
    /\ UNCHANGED rcVars
    /\ UNCHANGED auxVars

\* __main__ after run_test_program returned: sys.exit(1) if there are
\* failures, otherwise the script ends and the status is 0
ExitMain ==
    /\ main.pc = "returned"
    /\ exit_code = Running
    /\ exit_code' = IF main.results # <<>> THEN 1 ELSE 0
    /\ main' = [main EXCEPT !.pc = "exited"]
    /\ UNCHANGED <<files, max_workers, queue, workers, futures, completion, tree>>
    /\ UNCHANGED rcVars
    /\ UNCHANGED auxVars

\* an exception left run_test_program: nothing in __main__ catches it, the
\* interpreter prints the traceback and ends with status 1
Traceback ==
    /\ main.pc = "raised"
    /\ exit_code = Running
    /\ exit_code' = 1
    /\ main' = [main EXCEPT !.pc = "crashed"]
    /\ UNCHANGED <<files, max_workers, queue, workers, futures, completion, tree>>
    /\ UNCHANGED rcVars
    /\ UNCHANGED auxVars

RunCommandOff ==
    /\ fs = <<>>
    /\ ARGS = parse_args(FALSE, "", "")
    /\ run = NoCmd
    /\ pc = "idle"
    /\ obj = NoCmd
    /\ last = Done("init", NoTarget, FALSE, FALSE, {})
    /\ spawned = 0
    /\ runs = 0
    /\ producer = <<>>
    /\ dirs = {}

\* the test file names t1.sk, t2.sk, ... are told apart by their number
InitVerify ==
    /\ \E n \in 0..MaxFiles : files = [k \in 1..n |-> k]
    /\ max_workers \in 1..MaxWorkers
    /\ queue = <<>>
    /\ workers = <<>>
    /\ futures = [k \in 1..Len(files) |-> Pending]
    /\ main = [pc |-> "submit", i |-> 1, results |-> <<>>]
    /\ completion = <<>>
    /\ tree = NoTree
    /\ exit_code = Running
    /\ RunCommandOff
    /\ AuxOff

NextVerify ==
    \/ Submit
    \/ SubmitDone
    \/ \E w \in 1..Len(workers) : WorkerStart(w)
    \/ \E w \in 1..Len(workers) : WorkerStartError(w)
    \/ \E w \in 1..Len(workers) : ProgramExit(w)
    \/ \E w \in 1..Len(workers) : SetResult(w)
    \/ Collect
    \/ Return
    \/ ExitMain
    \/ Traceback

SpecVerify == InitVerify /\ [][NextVerify]_vars

Init == InitRunCommand(LedgerLayouts, {<<FALSE, "", "">>, <<FALSE, "", "skip_native_exec">>})
Next ==
    \/ RunOpen(LedgerInputs)
    \/ Spawn
    \/ SpawnFail
    \/ RunFinish(LedgerInputs)
    \/ FromArtifacts(LedgerInputs)
    \/ CheckReturnCode
    \/ ReportDiff
    \/ DiffFile
Spec == Init /\ [][Next]_vars

InitDiff == InitRunCommand(DiffLayouts, {<<FALSE, "", "">>, <<TRUE, "", "">>, <<FALSE, "1", "">>})
NextDiff ==
    \/ RunOpen(DiffInputs)
    \/ Spawn
    \/ SpawnFail
    \/ RunFinish(DiffInputs)
    \/ FromArtifacts(DiffInputs)
    \/ CheckReturnCode
    \/ ReportDiff
    \/ DiffFile
SpecDiff == InitDiff /\ [][NextDiff]_vars

(***************************************************************************)
(* The selection of test files (list_test_files of verify.py).  A path is  *)
(* the sequence of its components, a component a file name in atoms; the   *)
(* directory entries around the root are the set of paths that exist, each *)
(* a file, a directory or a broken symbolic link.                          *)
(***************************************************************************)
SkExt == <<".", "sk">>

\* --disabled-extension, by default
DisabledExt == <<".", "no_typecheck">>

File(path) == [path |-> path, kind |-> "file"]
Dir(path) == [path |-> path, kind |-> "dir"]
Link(path) == [path |-> path, kind |-> "link"]

isfile(E, path) == File(path) \in E
isdir(E, path) == Dir(path) \in E
islink(E, path) == Link(path) \in E

\* the order os.listdir returns names in
NameOrder ==
    << <<"a", ".", "sk">>, <<"a", ".", "no_typecheck">>,
       <<"a", ".", "sk", ".", "no_typecheck">>, <<"b", ".", "sk">>,
       <<"c", ".", "sk">>, <<".#b", ".", "sk">>,
       <<"disabled">>, <<"d">>, <<"todo">>, <<"failing">> >>

listdir(E, path) ==
    SelectSeq(NameOrder, LAMBDA n : \E e \in E : e.path = Append(path, n))

\* files_with_ext: the names without extension of the names that have
\* exactly the extension ext
files_with_ext(names, ext) ==
    {SplitExtRoot(names[k]) : k \in {j \in 1..Len(names) : SplitExtExt(names[j]) = ext}}

\* Pruned for the name 'disabled' only
Pruned_DisabledOnly(child) == child = <<"disabled">>

\* child == 'disabled' or child == 'failing' or child == 'todo'
Pruned(child) == child \in {<<"disabled">>, <<"failing">>, <<"todo">>}

RECURSIVE list_test_files(_, _, _)
RECURSIVE ListChildren(_, _, _, _, _)

\* the loop over the children of a directory, from the k-th on
ListChildren(E, root, children, disabled_ext, k) ==
    IF k > Len(children) THEN <<>>
    ELSE LET child == children[k]
             disabled == files_with_ext(children, disabled_ext)
             rest == ListChildren(E, root, children, disabled_ext, k + 1)
         IN  IF Pruned(child) THEN rest
             ELSE IF child \in disabled THEN rest
             ELSE list_test_files(E, Append(root, child), disabled_ext) \o rest

\* list_test_files for a root that exists
list_test_files(E, root, disabled_ext) ==
    IF isfile(E, root)
    THEN IF EndsWith(root[Len(root)], SkExt) THEN <<root>> ELSE <<>>
    ELSE IF isdir(E, root)
    THEN ListChildren(E, root, listdir(E, root), disabled_ext, 1)
    ELSE <<>>

\* the directory t given as test_path and what may lie below it
T == <<"t">>
TopEntries ==
    {File(<<T, <<"a", ".", "sk">>>>), File(<<T, <<"a", ".", "no_typecheck">>>>),
     File(<<T, <<"a", ".", "sk", ".", "no_typecheck">>>>), File(<<T, <<"b", ".", "sk">>>>),
     Link(<<T, <<".#b", ".", "sk">>>>)}
NestedEntries ==
    {Dir(<<T, <<"disabled">>>>), File(<<T, <<"disabled">>, <<"c", ".", "sk">>>>),
     Dir(<<T, <<"d">>>>), File(<<T, <<"d">>, <<"c", ".", "sk">>>>),
     Dir(<<T, <<"d">>, <<"todo">>>>), File(<<T, <<"d">>, <<"todo">>, <<"c", ".", "sk">>>>),
     Dir(<<T, <<"d">>, <<"failing">>>>), File(<<T, <<"d">>, <<"failing">>, <<"c", ".", "sk">>>>)}

\* every entry but the top directory lies in a directory that exists
Closed(E) ==
    \A e \in E : Len(e.path) > 1 => isdir(E, SubSeq(e.path, 1, Len(e.path) - 1))

Trees ==
    {E \cup {Dir(<<T>>)} : E \in {F \in SUBSET (TopEntries \cup NestedEntries) : Closed(F \cup {Dir(<<T>>)})}}

\* what test_path may name: the directory, things below it, nothing
Roots ==
    {<<T>>, <<T, <<"disabled">>>>, <<T, <<"d">>>>, <<T, <<"b", ".", "sk">>>>,
     <<T, <<".#b", ".", "sk">>>>, << <<"u">> >>}

InitSelect ==
    /\ \E r \in Roots, E \in Trees : tree = [root |-> r, entries |-> E]
    /\ exit_code = Running
    /\ files = <<>>
    /\ max_workers = 1
    /\ queue = <<>>
    /\ workers = <<>>
    /\ futures = <<>>
    /\ main = [pc |-> "list", i |-> 1, results |-> <<>>]
    /\ completion = <<>>
    /\ RunCommandOff
    /\ AuxOff

\* files = list_test_files(args.test_path, args.disabled_extension)
ListTestFiles ==
    /\ main.pc = "list"
    /\ isfile(tree.entries, tree.root) \/ isdir(tree.entries, tree.root) \/ islink(tree.entries, tree.root)
    /\ files' = list_test_files(tree.entries, tree.root, DisabledExt)
    /\ main' = [main EXCEPT !.pc = "listed"]
    /\ UNCHANGED <<max_workers, queue, workers, futures, completion, tree, exit_code>>
    /\ UNCHANGED rcVars
    /\ UNCHANGED auxVars

\* test_path names nothing: list_test_files raises, the run ends with a
\* traceback
ListTestFilesRaise ==
    /\ main.pc = "list"
    /\ ~(isfile(tree.entries, tree.root) \/ isdir(tree.entries, tree.root) \/ islink(tree.entries, tree.root))
    /\ main' = [main EXCEPT !.pc = "crashed"]
    /\ exit_code' = 1
    /\ UNCHANGED <<files, max_workers, queue, workers, futures, completion, tree>>
    /\ UNCHANGED rcVars
    /\ UNCHANGED auxVars

NextSelect ==
    \/ ListTestFiles
    \/ ListTestFilesRaise

SpecSelect == InitSelect /\ [][NextSelect]_vars

(***************************************************************************)
(* Expectation files: which one a RunCommand resolves to, and regular      *)
(* expressions in them.                                                    *)
(***************************************************************************)
\* the texts of at most n characters over chars
RECURSIVE TextsOver(_, _)
TextsOver(chars, n) ==
    IF n = 0 THEN {<<>>}
    ELSE TextsOver(chars, n - 1)
         \cup {Append(t, ch) : t \in {u \in TextsOver(chars, n - 1) : Len(u) = n - 1}, ch \in chars}

\* a test that lies in the binary directory already
TestABin == [dir |-> "bin", atoms |-> <<"a", ".", "sk">>]

\* the four paths _computeFilenames tries for a test
DstExp(test) == Plus(_computeDstWithoutExt(test), DefaultExpExt)
SrcExp(test) == Plus(SourceWithoutExt(test), DefaultExpExt)
DstRegex(test) == Plus(_computeDstWithoutExt(test), RegexExt)
SrcRegex(test) == Plus(SourceWithoutExt(test), RegexExt)

\* patterns and outputs: "$" matches at the end of a line only, "*" alone
\* does not compile
PatternChars == {"a", "$", ".", "*"}
OutputChars == {"a", "$"}

ExpectInputs ==
    [tests |-> {TestA, TestABin}, backends |-> {""},
     reportsOk |-> {FALSE}, expectError |-> {FALSE}, hasExpect |-> {TRUE},
     manual |-> {FALSE}, rcs |-> {0}, times |-> {1},
     outs |-> TextsOver(OutputChars, MaxLen), errs |-> {<<>>}]

\* every combination of the four expectation files of a test, and a regex
\* expectation with every pattern
ExpectLayouts ==
    FileSystems({DstExp(TestA), SrcExp(TestA), DstRegex(TestA), SrcRegex(TestA)}, {<<>>})
    \cup [{SrcRegex(TestA)} -> TextsOver(PatternChars, MaxLen)]

InitExpect == InitRunCommand(ExpectLayouts, {<<FALSE, "", "">>})
NextExpect ==
    \/ RunOpen(ExpectInputs)
    \/ Spawn
    \/ SpawnFail
    \/ RunFinish(ExpectInputs)
    \/ FromArtifacts(ExpectInputs)
    \/ CheckReturnCode
    \/ ReportDiff
    \/ DiffFile
SpecExpect == InitExpect /\ [][NextExpect]_vars

(***************************************************************************)
(* Ledgers that an earlier version of the harness, or a hand, left on      *)
(* disk.                                                                   *)
(***************************************************************************)
\* a record of the older format: no testHasExpect, no time_taken
OldLedgerText(returncode, expectError, testReportsOk) ==
    << "returncode", JsonOfNumber(returncode),
       "expectError", JsonOfBool(expectError),
       "testReportsOk", JsonOfBool(testReportsOk) >>

\* a record with every field, not necessarily one the constructor would write
FullLedgerText(returncode, testReportsOk, testHasExpect) ==
    << "returncode", JsonOfNumber(returncode),
       "time_taken", JsonOfTime(NoneTime),
       "expectError", JsonOfBool(FALSE),
       "testReportsOk", JsonOfBool(testReportsOk),
       "testHasExpect", JsonOfBool(testHasExpect) >>

\* the artifacts of TestA with such a ledger
OldLayouts ==
    LET names == _computeFilenames(<<>>, TestA, "", DefaultExpExt)
        With(text) == WriteFile(WriteFile(WriteFile(<<>>, names.stdout_name, <<>>),
                                          names.stderr_name, <<>>), names.res_name, text)
    IN  {With(OldLedgerText(rc, FALSE, ro)) : rc \in ExitCodes, ro \in BOOLEAN}
        \cup {With(FullLedgerText(rc, ro, he)) : rc \in ExitCodes, ro \in BOOLEAN, he \in BOOLEAN}

OldInputs ==
    [tests |-> {TestA}, backends |-> {""},
     reportsOk |-> BOOLEAN, expectError |-> {FALSE}, hasExpect |-> BOOLEAN,
     manual |-> {FALSE}, rcs |-> ExitCodes, times |-> Times,
     outs |-> {<<"a">>}, errs |-> {<<>>}]

InitOld == InitRunCommand(OldLayouts, {<<FALSE, "", "">>})
NextOld ==
    \/ RunOpen(OldInputs)
    \/ Spawn
    \/ SpawnFail
    \/ RunFinish(OldInputs)
    \/ FromArtifacts(OldInputs)
    \/ CheckReturnCode
    \/ ReportDiff
    \/ DiffFile
SpecOld == InitOld /\ [][NextOld]_vars

(***************************************************************************)
(* Properties.                                                             *)
(***************************************************************************)

\* C1 (Spec): checkReturnCode returns True exactly when (returncode == 0)
\* differs from the object's expectError flag; exit 0 without expectError
\* and a nonzero exit with expectError are successes, the other two
\* combinations are failures.
C1_CheckReturnCodeIsXor ==
    last.op = "checkReturnCode" =>
        /\ last.ret = ((obj.returncode = 0) # obj.expectError)
        /\ (obj.returncode = 0 /\ ~obj.expectError => last.ret)
        /\ (obj.returncode # 0 /\ obj.expectError => last.ret)
        /\ (obj.returncode = 0 /\ obj.expectError => ~last.ret)
        /\ (obj.returncode # 0 /\ ~obj.expectError => ~last.ret)

\* a nonzero exit of a run that expects an error was judged a success
C1_Witness ==
    /\ last.op = "checkReturnCode"
    /\ obj.returncode # 0
    /\ obj.expectError
    /\ last.ret

\* the fields of the ledger's record, as an object holds them
RecordFields(c) ==
    <<c.returncode, c.time_taken, c.expectError, c.testReportsOk, c.testHasExpect>>

\* C2 (Spec): fromArtifacts called right after a RunCommand that executed a
\* command, for the same test and backend, does not raise and yields the
\* returncode, time_taken, expectError, testReportsOk and testHasExpect
\* that the run wrote.
C2_LedgerRoundTrip ==
    [][(/\ last.op = "run"
        /\ ~last.raised
        /\ last'.op = "fromArtifacts"
        /\ last'.target = last.target)
       => (/\ ~last'.raised
           /\ RecordFields(obj') = RecordFields(obj))]_vars

\* a record that differs from the constructor's defaults in every field was
\* read back
C2_Witness ==
    /\ last.op = "fromArtifacts"
    /\ ~last.raised
    /\ obj.returncode = 0
    /\ obj.time_taken # NoneTime
    /\ obj.expectError
    /\ obj.testReportsOk
    /\ ~obj.testHasExpect
    /\ obj.backend = "native"

\* C3 (Spec): when the ledger of the test and backend does not exist,
\* fromArtifacts raises nothing, returns an object with returncode 127 and
\* spawns no child process (nor opens any file).
C3_MissingLedgerIs127 ==
    [][(/\ last'.op = "fromArtifacts"
        /\ ~exists(fs, _computeResName(last'.target.test, last'.target.backend)))
       => (/\ ~last'.raised
           /\ obj'.returncode = 127
           /\ spawned' = spawned
           /\ pc' = pc
           /\ fs' = fs)]_vars

\* fromArtifacts answered 127 for a backend without ledger while the other
\* backend of the test has one
C3_Witness ==
    /\ last.op = "fromArtifacts"
    /\ ~last.raised
    /\ obj.returncode = 127
    /\ ~exists(fs, obj.res_name)
    /\ \E b \in {"", "native"} : exists(fs, _computeResName(obj.test, b))

\* position of a file in the list given to run_test_program
IndexOf(fname) == CHOOSE k \in 1..Len(files) : files[k] = fname

\* C4 (SpecVerify): the failures run_test_program returns are in the order
\* of the input list, whatever the order the workers completed in.
C4_FailuresInInputOrder ==
    main.pc = "returned" =>
        \A a, b \in 1..Len(main.results) :
            a < b => IndexOf(main.results[a].fname) < IndexOf(main.results[b].fname)

\* two failures were returned for tests that completed in the opposite order
C4_Witness ==
    /\ main.pc = "returned"
    /\ Len(main.results) >= 2
    /\ completion[1] # 1

\* the pool threads with a test subprocess alive
Executing == {w \in 1..Len(workers) : workers[w].st = "exec"}

\* C5 (SpecVerify): at most max_workers test subprocesses run at any time.
C5_AtMostMaxWorkers == Cardinality(Executing) <= max_workers

\* max_workers subprocesses run while a submitted test waits in the queue
C5_Witness ==
    /\ Cardinality(Executing) = max_workers
    /\ queue # <<>>

\* C6 (SpecVerify): an error raised while running or checking one test is
\* never raised out of run_test_program.
C6_ErrorsNeverLeave == main.pc # "raised"

\* C7 (SpecVerify): run(f) yields a Failure exactly when the output, after
\* the root path is replaced and trailing whitespace stripped, differs from
\* the expected text; the Failure carries both texts; the exit code plays
\* no part.
C7_FailureIffOutputDiffers ==
    \A w \in 1..Len(workers) :
        (workers[w].st = "return" /\ ~workers[w].raised) =>
            LET out == NormalizeOutput(workers[w].output)
                exp == ExpectedText(workers[w].expfile)
            IN  /\ (workers[w].result # NoFailure) = (exp # out)
                /\ workers[w].result # NoFailure =>
                       workers[w].result = Failure(files[workers[w].i], exp, out)

\* a nonzero exit whose output matches after stripping gave no Failure, and
\* the raw texts differ
C7_Witness ==
    \E w \in 1..Len(workers) :
        /\ workers[w].st = "return"
        /\ ~workers[w].raised
        /\ workers[w].rc # 0
        /\ workers[w].result = NoFailure
        /\ workers[w].output = <<"a">>
        /\ workers[w].expfile = Readable(<<"a", "\n">>)

\* C8 as stated (SpecDiff): in baseline-update mode report_diff for a test
\* that has an expectation overwrites the expectation file with the
\* captured stdout and returns False.
C8_AsStated ==
    [][(/\ last'.op = "report_diff"
        /\ ARGS.update_baseline
        /\ obj.testHasExpect
        /\ exists(fs, obj.stdout_name)
        /\ exists(fs, obj.stderr_name))
       => (/\ ~last'.ret
           /\ exists(fs', obj.exp_name)
           /\ fs'[obj.exp_name] = fs[obj.stdout_name])]_vars

\* C8 amended (SpecDiff): in baseline-update mode report_diff for a test
\* that has an expectation, made without manualUpdateBaseline, whose
\* expectation file is not an .expectregex file and whose stdout and stderr
\* captures exist, overwrites the expectation file with the captured stdout
\* and returns False, whatever the file held before.
C8_UpdateOverwrites ==
    [][(/\ last'.op = "report_diff"
        /\ ARGS.update_baseline
        /\ obj.testHasExpect
        /\ ~obj.manual_update_baseline
        /\ ~EndsWith(obj.exp_name.atoms, RegexExt)
        /\ exists(fs, obj.stdout_name)
        /\ exists(fs, obj.stderr_name))
       => (/\ ~last'.ret
           /\ ~last'.raised
           /\ exists(fs', obj.exp_name)
           /\ fs'[obj.exp_name] = fs[obj.stdout_name])]_vars

\* report_diff rewrote an expectation file in baseline-update mode
C8_Witness ==
    /\ last.op = "report_diff"
    /\ ARGS.update_baseline
    /\ ~last.ret
    /\ obj.exp_name \in last.wrote
    /\ fs[obj.exp_name] = fs[obj.stdout_name]

\* expectation files and their _err and _failure sidecars
IsExpectationPath(p) ==
    \/ StartsWith(SplitExtExt(p.atoms), DefaultExpExt)
    \/ StartsWith(SplitExtExt(p.atoms), RegexExt)

Expectations(fsys) ==
    [p \in {q \in DOMAIN fsys : IsExpectationPath(q)} |-> fsys[p]]

\* C9 (SpecDiff): with neither --update-baseline nor UPDATE_BASELINE set, no
\* step of RunCommand creates or changes an expectation file or sidecar.
C9_NoUpdateWithoutOptIn ==
    [][(~ARGS.flag /\ ARGS.env = "") => Expectations(fs') = Expectations(fs)]_vars

\* without opt-in, report_diff found the output different from an existing
\* expectation and left it
C9_Witness ==
    /\ ~ARGS.flag
    /\ ARGS.env = ""
    /\ last.op = "report_diff"
    /\ last.ret
    /\ exists(fs, obj.exp_name)
    /\ exists(fs, obj.stdout_name)
    /\ fs[obj.exp_name] # fs[obj.stdout_name]

\* C10 (SpecDiff): for a literal expectation file, diff_file returns True
\* exactly when the actual file's content is not equal to the expected
\* file's.
C10_LiteralDiffIsInequality ==
    (/\ last.op = "diff_file"
     /\ ~EndsWith(obj.exp_name.atoms, RegexExt)
     /\ exists(fs, obj.exp_name)
     /\ exists(fs, obj.stdout_name))
    => (/\ ~last.raised
        /\ last.ret = (fs[obj.stdout_name] # fs[obj.exp_name]))

\* diff_file found a literal expectation equal to the output, both non-empty
C10_Witness ==
    /\ last.op = "diff_file"
    /\ ~EndsWith(obj.exp_name.atoms, RegexExt)
    /\ exists(fs, obj.exp_name)
    /\ exists(fs, obj.stdout_name)
    /\ fs[obj.exp_name] # <<>>
    /\ ~last.ret

\* C11 (SpecExpect): for a regex expectation file, diff_file reports a
\* match (returns False) exactly when the pattern matches the actual text
\* from its start, and a mismatch (returns True) for every text the pattern
\* does not match.
C11_RegexMatchDecides ==
    (/\ last.op = "diff_file"
     /\ EndsWith(obj.exp_name.atoms, RegexExt)
     /\ exists(fs, obj.exp_name)
     /\ exists(fs, obj.stdout_name)
     /\ ReValid(fs[obj.exp_name]))
    => (/\ ~last.raised
        /\ last.ret = ~ReMatch(fs[obj.exp_name], fs[obj.stdout_name]))

\* the captured stdout agrees with the expectation file: equal to a literal
\* file, matched by or equal to a regex file
StdoutMatches(fsys, c) ==
    /\ exists(fsys, c.exp_name)
    /\ exists(fsys, c.stdout_name)
    /\ \/ fsys[c.stdout_name] = fsys[c.exp_name]
       \/ /\ EndsWith(c.exp_name.atoms, RegexExt)
          /\ ReValid(fsys[c.exp_name])
          /\ ReMatch(fsys[c.exp_name], fsys[c.stdout_name])

\* C12 (SpecDiff): for a test that has an expectation, is not in reports-OK
\* mode and is not run in baseline-update mode, whose stdout matches the
\* expectation and which has no _err sidecar: report_diff reports a
\* difference if the captured stderr is non-empty and no difference if it
\* is empty.
C12_StderrMustBeEmpty ==
    [][(/\ last'.op = "report_diff"
        /\ obj.testHasExpect
        /\ ~obj.testReportsOk
        /\ ~ARGS.update_baseline
        /\ StdoutMatches(fs, obj)
        /\ ~exists(fs, Plus(obj.exp_name, <<"_err">>))
        /\ exists(fs, obj.stderr_name))
       => (/\ ~last'.raised
           /\ last'.ret = (fs[obj.stderr_name] # <<>>))]_vars

\* report_diff reported a difference for a non-empty stdout equal to the
\* expectation, because stderr was not empty and there is no sidecar
C12_Witness ==
    /\ last.op = "report_diff"
    /\ last.ret
    /\ ~ARGS.update_baseline
    /\ StdoutMatches(fs, obj)
    /\ fs[obj.stdout_name] # <<>>
    /\ ~exists(fs, Plus(obj.exp_name, <<"_err">>))
    /\ exists(fs, obj.stderr_name)
    /\ fs[obj.stderr_name] # <<>>

\* none of the four expectation files of the test exists
NoExpectationFile(fsys, test) ==
    {DstExp(test), SrcExp(test), DstRegex(test), SrcRegex(test)} \cap DOMAIN fsys = {}

C14_MissingExpectationIsEmpty ==
    \A w \in 1..Len(workers) :
        (workers[w].st = "return" /\ workers[w].expfile = Missing) =>
            LET out == NormalizeOutput(workers[w].output)
            IN  /\ ~workers[w].raised
                /\ out = <<>> => workers[w].result = NoFailure
                /\ out # <<>> => workers[w].result = Failure(files[workers[w].i], <<>>, out)

\* a test without expectation file and without output passed
C14_Witness ==
    \E w \in 1..Len(workers) :
        /\ workers[w].st = "return"
        /\ workers[w].expfile = Missing
        /\ workers[w].output = <<>>
        /\ workers[w].result = NoFailure
        /\ ~workers[w].raised

\* the tests whose run produced a Failure
Failed == {k \in 1..Len(files) : futures[k].state = "returned" /\ futures[k].result # NoFailure}

\* C17 (SpecVerify): the command-line run ends with exit code 1 exactly
\* when at least one selected test produced a Failure, and with 0 when all
\* passed or none was selected.
C17_ExitCodeIsFailure ==
    exit_code # Running =>
        /\ (exit_code = 1) = (Failed # {})
        /\ (exit_code = 0) = (Failed = {})

\* the directory of the claim's example: a.sk, a.no_typecheck, b.sk and a
\* subdirectory disabled holding c.sk
ExampleEntries ==
    {Dir(<<T>>), File(<<T, <<"a", ".", "sk">>>>), File(<<T, <<"a", ".", "no_typecheck">>>>),
     File(<<T, <<"b", ".", "sk">>>>), Dir(<<T, <<"disabled">>>>),
     File(<<T, <<"disabled">>, <<"c", ".", "sk">>>>)}

\* name.sk has a sibling name<disabledExtension>
HasDisabledSibling(E, path) ==
    LET name == path[Len(path)]
        dir == SubSeq(path, 1, Len(path) - 1)
    IN  /\ EndsWith(name, SkExt)
        /\ \E e \in E : e.path = Append(dir, SplitExtRoot(name) \o DisabledExt)

\* C15 (SpecSelect): list_test_files on a directory returns no name.sk that
\* has a sibling name<disabledExtension> in its directory; for the example
\* directory it returns exactly [b.sk].
C15_DisabledSiblingExcluded ==
    (main.pc = "listed" /\ isdir(tree.entries, tree.root)) =>
        /\ \A k \in 1..Len(files) : ~HasDisabledSibling(tree.entries, files[k])
        /\ (tree.root = <<T>> /\ tree.entries = ExampleEntries)
               => files = << <<T, <<"b", ".", "sk">>>> >>

\* C16 (SpecSelect): no path list_test_files returns has, below the root it
\* was given, a directory named disabled, failing or todo.
C16_PrunedDirectoriesSkipped ==
    main.pc = "listed" =>
        \A k \in 1..Len(files) :
            \A j \in (Len(tree.root) + 1)..(Len(files[k]) - 1) :
                files[k][j] \notin {<<"disabled">>, <<"failing">>, <<"todo">>}

\* a test two levels down was returned, while its directory holds tests in
\* todo and failing and the root holds one in disabled
C16_Witness ==
    /\ main.pc = "listed"
    /\ tree.root = <<T>>
    /\ <<T, <<"d">>, <<"c", ".", "sk">>>> \in {files[k] : k \in 1..Len(files)}
    /\ isfile(tree.entries, <<T, <<"disabled">>, <<"c", ".", "sk">>>>)
    /\ isfile(tree.entries, <<T, <<"d">>, <<"todo">>, <<"c", ".", "sk">>>>)
    /\ isfile(tree.entries, <<T, <<"d">>, <<"failing">>, <<"c", ".", "sk">>>>)

\* the first path of a list that exists is the one chosen
FirstExistingIs(fsys, candidates, chosen) ==
    \A k \in 1..Len(candidates) :
        (/\ exists(fsys, candidates[k])
         /\ \A j \in 1..(k - 1) : ~exists(fsys, candidates[j]))
        => chosen = candidates[k]

\* C18 as stated (SpecExpect): the expectation file of a RunCommand is the
\* first that exists of <dst>.exp, <source>.exp, <dst>.expectregex,
\* <source>.expectregex.
C18_AsStated ==
    [][last'.op = "open" =>
          LET t == run'.test
          IN  FirstExistingIs(fs, <<DstExp(t), SrcExp(t), DstRegex(t), SrcRegex(t)>>,
                              run'.exp_name)]_vars

\* C18 amended (SpecExpect): the expectation file of a RunCommand is the
\* first that exists of <dst>.expectregex, <source>.expectregex, <dst>.exp,
\* <source>.exp, and <source>.exp when none exists.
C18_RegexThenLiteral ==
    [][last'.op = "open" =>
          LET t == run'.test
          IN  /\ FirstExistingIs(fs, <<DstRegex(t), SrcRegex(t), DstExp(t), SrcExp(t)>>,
                                 run'.exp_name)
              /\ NoExpectationFile(fs, t) => run'.exp_name = SrcExp(t)]_vars

\* a RunCommand made while all four files exist resolved to <dst>.expectregex
C18_Witness ==
    /\ pc = "opened"
    /\ run.test = TestA
    /\ {DstExp(TestA), SrcExp(TestA), DstRegex(TestA), SrcRegex(TestA)} \subseteq DOMAIN fs
    /\ run.exp_name = DstRegex(TestA)

\* C19 (SpecExpect): when a literal and a regex expectation file both
\* exist the RunCommand resolves to a regex file; and when the file next to
\* the build artifact exists with the extension of the resolved file, the
\* resolved file is that one, not the one next to the source.
C19_RegexOverLiteralDstOverSource ==
    [][last'.op = "open" =>
          LET t == run'.test
              chosen == run'.exp_name
          IN  /\ ({DstExp(t), SrcExp(t)} \cap DOMAIN fs # {}
                   /\ {DstRegex(t), SrcRegex(t)} \cap DOMAIN fs # {})
                  => chosen \in {DstRegex(t), SrcRegex(t)}
              /\ (exists(fs, DstExp(t)) /\ chosen \in {DstExp(t), SrcExp(t)})
                  => chosen = DstExp(t)
              /\ (exists(fs, DstRegex(t)) /\ chosen \in {DstRegex(t), SrcRegex(t)})
                  => chosen = DstRegex(t)]_vars

\* a RunCommand resolved to the regex file next to the source although a
\* literal file lies next to the build artifact
C19_Witness ==
    /\ pc = "opened"
    /\ run.test = TestA
    /\ exists(fs, DstExp(TestA))
    /\ exists(fs, SrcRegex(TestA))
    /\ ~exists(fs, DstRegex(TestA))
    /\ run.exp_name = SrcRegex(TestA)

\* the ledger, stdout, stderr and marker files of a test and backend
ArtifactPaths(test, backend) ==
    LET dst_we == _computeDstWithoutExt(test)
    IN  {backendName(dst_we, ext, backend) : ext \in {"res", "out", "err", "testok", "testfail"}}

\* C20 (SpecExpect): a RunCommand for one test never writes a file that is
\* an artifact of a different test path with the same backend.
C20_ArtifactsNeverShared ==
    [][last'.op \in {"open", "run"} =>
          \A t \in ExpectInputs.tests :
              t # last'.target.test =>
                  last'.wrote \cap ArtifactPaths(t, last'.target.backend) = {}]_vars

\* the capture file that goes with a ledger: the same name with the
\* extension ext
SiblingOf(ledger, ext) ==
    [dir |-> ledger.dir,
     atoms |-> SubSeq(ledger.atoms, 1, Len(ledger.atoms) - 1) \o <<ext>>]

C25_NoCommandTouchesNothing ==
    [][last'.op = "fromArtifacts" =>
          (/\ fs' = fs
           /\ dirs' = dirs
           /\ producer' = producer
           /\ last'.wrote = {}
           /\ pc' = pc
           /\ spawned' = spawned)]_vars

\* fromArtifacts read the record of a finished run and the captured stdout
\* is still there
C25_Witness ==
    /\ last.op = "fromArtifacts"
    /\ ~last.raised
    /\ exists(fs, obj.res_name)
    /\ fs[obj.res_name] = LedgerText(obj)
    /\ exists(fs, obj.stdout_name)
    /\ fs[obj.stdout_name] # <<>>
    /\ "bin" \in dirs

\* C28 (Spec): fromArtifacts never raises, whatever state earlier
\* RunCommand constructions left the artifact files in: it returns the
\* stored record, or exit code 127 when there is no ledger.
C28_FromArtifactsNeverRaises ==
    [][last'.op = "fromArtifacts" =>
          (/\ ~last'.raised
           /\ obj' # NoCmd
           /\ ~exists(fs, obj'.res_name) => obj'.returncode = 127)]_vars

\* the _failure marker of a RunCommand's expectation file
FailureMarker(c) == Plus(c.exp_name, <<"_failure">>)

\* C29 (Spec): when <expectation file>_failure exists as a RunCommand is
\* constructed, the record the run writes has expectError true whatever the
\* expectError argument was, and checkReturnCode on that RunCommand returns
\* True for a nonzero exit code and False for exit code 0.
C29_FailureMarkerExpectsError ==
    [][/\ (last'.op = "run" /\ ~last'.raised /\ exists(fs, FailureMarker(obj')))
          => BoolOfJson(JsonGet(fs'[obj'.res_name], "expectError"))
       /\ (last.op = "run" /\ ~last.raised /\ exists(fs, FailureMarker(obj))
           /\ last'.op = "checkReturnCode")
          => last'.ret = (obj.returncode # 0)]_vars

\* with the marker present, a run that exited with 0 was judged a failure
\* and its record says an error was expected
C29_Witness ==
    /\ last.op = "checkReturnCode"
    /\ exists(fs, FailureMarker(obj))
    /\ obj.returncode = 0
    /\ ~last.ret
    /\ fs[obj.res_name] = LedgerText(obj)
    /\ obj.failing_name \in DOMAIN fs

\* C23 (SpecDiff): in baseline-update mode report_diff leaves every
\* .expectregex file as it is, and for a RunCommand whose expectation file
\* is one it writes no expectation file or sidecar at all.
C23_RegexNeverRewritten ==
    [][(last'.op = "report_diff" /\ ARGS.update_baseline) =>
          /\ \A q \in DOMAIN fs :
                 EndsWith(q.atoms, RegexExt) => (exists(fs', q) /\ fs'[q] = fs[q])
          /\ EndsWith(obj.exp_name.atoms, RegexExt)
                 => Expectations(fs') = Expectations(fs)]_vars

\* in baseline-update mode report_diff reported a difference between the
\* output and a regex expectation that does not match it, and left the file
C23_Witness ==
    /\ last.op = "report_diff"
    /\ ARGS.update_baseline
    /\ ~obj.manual_update_baseline
    /\ EndsWith(obj.exp_name.atoms, RegexExt)
    /\ exists(fs, obj.exp_name)
    /\ exists(fs, obj.stdout_name)
    /\ fs[obj.exp_name] # fs[obj.stdout_name]
    /\ last.ret

\* C24 (SpecOld): fromArtifacts on a ledger record without testHasExpect
\* sets testHasExpect to the negation of the record's testReportsOk; on a
\* record with the field it takes the stored value.
C24_MissingHasExpectDerived ==
    [][LET ledger == _computeResName(last'.target.test, last'.target.backend)
       IN  (/\ last'.op = "fromArtifacts"
            /\ exists(fs, ledger)
            /\ JsonLoads(fs[ledger]))
           => (/\ ~last'.raised
               /\ obj'.testHasExpect =
                      IF "testHasExpect" \in JsonKeys(fs[ledger])
                      THEN BoolOfJson(JsonGet(fs[ledger], "testHasExpect"))
                      ELSE ~BoolOfJson(JsonGet(fs[ledger], "testReportsOk")))]_vars

\* a record of the older format with testReportsOk true was read as having
\* no expectation
C24_Witness ==
    /\ last.op = "fromArtifacts"
    /\ ~last.raised
    /\ exists(fs, obj.res_name)
    /\ "testHasExpect" \notin JsonKeys(fs[obj.res_name])
    /\ obj.testReportsOk
    /\ ~obj.testHasExpect

(***************************************************************************)
(* The profile log of common.py: logPerfData collects samples in the      *)
(* process, _writeToPerfLog appends them to the JSON array at ARGS.profile *)
(* when the process exits.  Two processes share one profile path.          *)
(***************************************************************************)
\* most calls of logPerfData by one process
MaxSamples == 2

\* the processes, by their pid
Pids == {1, 2}

\* the file at ARGS.profile and the temporary file of process p
ProfileName == <<"profile">>
tmp_output_name(p) == <<"profile", ".", p>>

\* {'sample_name': label, 'value': value}
Sample(label, value) == [sample_name |-> label, value |-> value]
OldSample == Sample("old", 0)

\* the label under which process p logs
Label(p) == <<"p1", "p2">>[p]

\* the punctuation of a JSON text
Punct(c) == [punct |-> c]

\* json.dump of a list: its elements between brackets, separated by commas
RECURSIVE JsonItems(_)
JsonItems(arr) ==
    IF arr = <<>> THEN <<>>
    ELSE IF Len(arr) = 1 THEN <<arr[1]>>
    ELSE <<arr[1], Punct(",")>> \o JsonItems(Tail(arr))
JsonDumpList(arr) == <<Punct("[")>> \o JsonItems(arr) \o <<Punct("]")>>

\* json.load of a text: the list it denotes, or a failure when the text is
\* not the dump of a list
JsonLoadList(text) ==
    LET n == Len(text)
        inner == IF n >= 2 THEN SubSeq(text, 2, n - 1) ELSE <<>>
        m == Len(inner)
        wellFormed ==
            /\ n >= 2
            /\ text[1] = Punct("[")
            /\ text[n] = Punct("]")
            /\ (m = 0 \/ m % 2 = 1)
            /\ \A i \in 1..m : IF i % 2 = 0 THEN inner[i] = Punct(",")
                               ELSE "punct" \notin DOMAIN inner[i]
    IN  IF wellFormed
        THEN [ok |-> TRUE, value |-> [k \in 1..((m + 1) \div 2) |-> inner[2 * k - 1]]]
        ELSE [ok |-> FALSE, value |-> <<>>]

\* atexit.register(_writeToPerfLog) on every call (the registered flag is
\* not consulted)
_registerLogAtExit_EveryCall(proc) ==
    [proc EXCEPT !.hooks = @ + 1, !.registered = TRUE]

\* _registerLogAtExit: registers the flush once per process
_registerLogAtExit(proc) ==
    IF ~proc.registered
    THEN [proc EXCEPT !.hooks = @ + 1, !.registered = TRUE]
    ELSE proc

\* a process that has logged nothing yet
NewProcess ==
    [pc |-> "running", calls |-> 0, logged_data |-> <<>>, registered |-> FALSE,
     hooks |-> 0, obj |-> <<>>, before |-> [ok |-> TRUE, value |-> <<>>], flushes |-> 0]

\* logPerfData(label, tables, value)
LogPerfData(p) ==
    LET proc == perf.procs[p] IN
    /\ perf # NoPerf
    /\ proc.pc = "running"
    /\ proc.calls < MaxSamples
    /\ perf' = [perf EXCEPT !.procs[p] =
           IF perf.profile
           THEN _registerLogAtExit(
                    [proc EXCEPT !.calls = @ + 1,
                                 !.logged_data = Append(@, Sample(Label(p), proc.calls + 1))])
           ELSE [proc EXCEPT !.calls = @ + 1]]
    /\ UNCHANGED <<tee, tmp>>
    /\ UNCHANGED rcVars
    /\ UNCHANGED vfVars

\* the process exits: the interpreter starts calling the atexit hooks
ProcessExit(p) ==
    /\ perf # NoPerf
    /\ perf.procs[p].pc = "running"
    /\ perf' = [perf EXCEPT !.procs[p].pc = "atexit"]
    /\ UNCHANGED <<tee, tmp>>
    /\ UNCHANGED rcVars
    /\ UNCHANGED vfVars

\* _writeToPerfLog up to obj += logged_data: the directory is made, the
\* array in the file is loaded (an unreadable text counts as no array)
FlushRead(p) ==
    LET proc == perf.procs[p]
        loaded == IF ProfileName \in DOMAIN perf.files
                  THEN JsonLoadList(perf.files[ProfileName])
                  ELSE [ok |-> TRUE, value |-> <<>>]
    IN
    /\ perf # NoPerf
    /\ proc.pc = "atexit"
    /\ proc.hooks > 0
    /\ perf' = [perf EXCEPT !.dir = TRUE,
                            !.procs[p].pc = "loaded",
                            !.procs[p].before = loaded,
                            !.procs[p].obj = loaded.value \o proc.logged_data]
    /\ UNCHANGED <<tee, tmp>>
    /\ UNCHANGED rcVars
    /\ UNCHANGED vfVars

\* _writeToPerfLog: json.dump(obj) into the temporary file of the process
FlushDump(p) ==
    LET proc == perf.procs[p] IN
    /\ perf # NoPerf
    /\ proc.pc = "loaded"
    /\ perf.dir
    /\ perf' = [perf EXCEPT
           !.files = [q \in DOMAIN @ \cup {tmp_output_name(p)} |->
                         IF q = tmp_output_name(p) THEN JsonDumpList(proc.obj) ELSE @[q]],
           !.procs[p].pc = "dumped"]
    /\ UNCHANGED <<tee, tmp>>
    /\ UNCHANGED rcVars
    /\ UNCHANGED vfVars

\* _writeToPerfLog: os.rename(tmp_output_name, ARGS.profile); the hook returns
FlushRename(p) ==
    LET proc == perf.procs[p]
        kept == (DOMAIN perf.files \cup {ProfileName}) \ {tmp_output_name(p)}
    IN
    /\ perf # NoPerf
    /\ proc.pc = "dumped"
    /\ tmp_output_name(p) \in DOMAIN perf.files
    /\ perf' = [perf EXCEPT
           !.files = [q \in kept |->
                         IF q = ProfileName THEN perf.files[tmp_output_name(p)]
                         ELSE perf.files[q]],
           !.procs[p].pc = "atexit",
           !.procs[p].hooks = @ - 1,
           !.procs[p].flushes = @ + 1]
    /\ UNCHANGED <<tee, tmp>>
    /\ UNCHANGED rcVars
    /\ UNCHANGED vfVars

\* every atexit hook has run: the process is gone
ProcessDone(p) ==
    /\ perf # NoPerf
    /\ perf.procs[p].pc = "atexit"
    /\ perf.procs[p].hooks = 0
    /\ perf' = [perf EXCEPT !.procs[p].pc = "done"]
    /\ UNCHANGED <<tee, tmp>>
    /\ UNCHANGED rcVars
    /\ UNCHANGED vfVars

\* the texts the profile file may hold when the processes start: no file,
\* an empty array, an array of one earlier sample, a truncated text
ProfileTexts ==
    {JsonDumpList(<<>>), JsonDumpList(<<OldSample>>), <<Punct("["), OldSample>>}

InitPerf ==
    /\ \E enabled \in BOOLEAN, present \in BOOLEAN, text \in ProfileTexts, d \in BOOLEAN :
          /\ present => d
          /\ ~present => text = JsonDumpList(<<>>)
          /\ perf = [profile |-> enabled,
                     dir |-> d,
                     files |-> IF present THEN (ProfileName :> text) ELSE <<>>,
                     procs |-> [p \in Pids |-> NewProcess]]
    /\ tee = NoTee
    /\ tmp = NoTmp
    /\ RunCommandOff
    /\ VerifierOff

NextPerf ==
    \/ \E p \in Pids : LogPerfData(p)
    \/ \E p \in Pids : ProcessExit(p)
    \/ \E p \in Pids : FlushRead(p)
    \/ \E p \in Pids : FlushDump(p)
    \/ \E p \in Pids : FlushRename(p)
    \/ \E p \in Pids : ProcessDone(p)

SpecPerf == InitPerf /\ [][NextPerf]_vars

\* the profile file holds a JSON array
ProfileArray ==
    IF ProfileName \in DOMAIN perf.files
    THEN JsonLoadList(perf.files[ProfileName])
    ELSE [ok |-> FALSE, value |-> <<>>]

\* C22 (SpecPerf): with profiling enabled, the step that ends a flush of a
\* process leaves in the profile file the array the flush found in it (none
\* when there was no file) followed by the samples the process logged, in
\* logging order and nothing else; and a process that logged samples has
\* flushed exactly once when it is gone.
C22_FlushAppendsOnce ==
    [][\A p \in Pids :
          /\ (/\ perf.profile
              /\ perf'.procs[p].flushes = perf.procs[p].flushes + 1
              /\ perf.procs[p].before.ok)
             => (/\ ProfileName \in DOMAIN perf'.files
                 /\ JsonLoadList(perf'.files[ProfileName]).ok
                 /\ JsonLoadList(perf'.files[ProfileName]).value
                        = perf.procs[p].before.value \o perf.procs[p].logged_data)
          /\ (/\ perf.profile
              /\ perf'.procs[p].pc = "done"
              /\ perf.procs[p].calls > 0)
             => perf'.procs[p].flushes = 1]_vars

\* a process that logged two samples is gone, and the file holds the
\* earlier sample followed by its two samples
C22_Witness ==
    /\ perf # NoPerf
    /\ perf.profile
    /\ \E p \in Pids :
          /\ perf.procs[p].pc = "done"
          /\ Len(perf.procs[p].logged_data) = 2
          /\ perf.procs[p].flushes = 1
          /\ perf.procs[p].before.value = <<OldSample>>
          /\ ProfileArray.ok
          /\ ProfileArray.value = <<OldSample>> \o perf.procs[p].logged_data

\* C30 (SpecPerf): when two processes that each logged samples have both
\* finished flushing, the profile file is a JSON array that contains the
\* samples of both.
C30_BothFlushesKept ==
    (/\ perf # NoPerf
     /\ perf.profile
     /\ \A p \in Pids : perf.procs[p].pc = "done" /\ perf.procs[p].logged_data # <<>>)
    => (/\ ProfileArray.ok
        /\ \A p \in Pids : \A i \in 1..Len(perf.procs[p].logged_data) :
              \E k \in 1..Len(ProfileArray.value) :
                 ProfileArray.value[k] = perf.procs[p].logged_data[i])

(***************************************************************************)
(* RunCommand of a test that reports OK inline: the child's stdout is a    *)
(* pipe, a StreamTee thread copies it to the console and to the capture    *)
(* file, the constructor waits for the child, joins the tee and writes the *)
(* ledger record.                                                          *)
(***************************************************************************)
\* most characters the child writes to its stdout
MaxOutput == 3

\* the size of one read of the tee (16384 in the code)
ChunkSize == 2

\* the characters the kernel holds for a pipe before the writer blocks
PipeSize == 2

RECURSIVE SeqsUpTo(_, _)
SeqsUpTo(S, n) ==
    IF n = 0 THEN {<<>>}
    ELSE SeqsUpTo(S, n - 1) \cup
         {Append(t, c) : t \in {u \in SeqsUpTo(S, n - 1) : Len(u) = n - 1}, c \in S}

\* the first n elements of a sequence, all of it when it is shorter
Take(t, n) == SubSeq(t, 1, IF Len(t) < n THEN Len(t) ELSE n)
Drop(t, n) == SubSeq(t, (IF Len(t) < n THEN Len(t) ELSE n) + 1, Len(t))

\* the child writes the next character of its output to its stdout
ChildWrite ==
    /\ tee # NoTee
    /\ ~tee.exited
    /\ tee.written < Len(tee.output)
    /\ Len(tee.pipe) < PipeSize
    /\ tee' = [tee EXCEPT !.written = @ + 1,
                          !.pipe = Append(@, tee.output[tee.written + 1])]
    /\ UNCHANGED <<perf, tmp>>
    /\ UNCHANGED rcVars
    /\ UNCHANGED vfVars

\* the child has written all its output and exits
ChildExit ==
    /\ tee # NoTee
    /\ ~tee.exited
    /\ tee.written = Len(tee.output)
    /\ tee' = [tee EXCEPT !.exited = TRUE]
    /\ UNCHANGED <<perf, tmp>>
    /\ UNCHANGED rcVars
    /\ UNCHANGED vfVars

\* StreamTee.run: read = self._reader.read(16384) returns a full chunk, or
\* what is left once the child has closed the pipe
TeeRead ==
    /\ tee # NoTee
    /\ tee.pc = "read"
    /\ tee.pipe # <<>>
    /\ Len(tee.pipe) >= ChunkSize \/ tee.exited
    /\ tee' = [tee EXCEPT !.read = Take(tee.pipe, ChunkSize),
                          !.pipe = Drop(tee.pipe, ChunkSize),
                          !.log = @ \o Take(tee.pipe, ChunkSize),
                          !.pc = "write1"]
    /\ UNCHANGED <<perf, tmp>>
    /\ UNCHANGED rcVars
    /\ UNCHANGED vfVars

\* StreamTee.run: if not read: break
TeeEof ==
    /\ tee # NoTee
    /\ tee.pc = "read"
    /\ tee.pipe = <<>>
    /\ tee.exited
    /\ tee' = [tee EXCEPT !.read = <<>>, !.pc = "dead"]
    /\ UNCHANGED <<perf, tmp>>
    /\ UNCHANGED rcVars
    /\ UNCHANGED vfVars

\* StreamTee.run: self._writer1.write(read); self._writer1.flush()
TeeWriteConsole ==
    /\ tee # NoTee
    /\ tee.pc = "write1"
    /\ tee.console_open
    /\ tee' = [tee EXCEPT !.console = @ \o tee.read, !.pc = "write2"]
    /\ UNCHANGED <<perf, tmp>>
    /\ UNCHANGED rcVars
    /\ UNCHANGED vfVars

\* StreamTee.run: the write to the console raises (its reader is gone);
\* except Exception: break
TeeWriteConsoleRaises ==
    /\ tee # NoTee
    /\ tee.pc = "write1"
    /\ ~tee.console_open
    /\ tee' = [tee EXCEPT !.pc = "dead"]
    /\ UNCHANGED <<perf, tmp>>
    /\ UNCHANGED rcVars
    /\ UNCHANGED vfVars

\* StreamTee.run: self._writer2.write(read); self._writer2.flush()
TeeWriteCapture ==
    /\ tee # NoTee
    /\ tee.pc = "write2"
    /\ tee' = [tee EXCEPT !.capture = @ \o tee.read, !.pc = "read"]
    /\ UNCHANGED <<perf, tmp>>
    /\ UNCHANGED rcVars
    /\ UNCHANGED vfVars

\* RunCommand.__init__: self.returncode = p.wait()
Wait ==
    /\ tee # NoTee
    /\ tee.main = "wait"
    /\ tee.exited
    /\ tee' = [tee EXCEPT !.main = "join"]
    /\ UNCHANGED <<perf, tmp>>
    /\ UNCHANGED rcVars
    /\ UNCHANGED vfVars

\* RunCommand.__init__: stdoutTee.join()
Join ==
    /\ tee # NoTee
    /\ tee.main = "join"
    /\ tee.pc = "dead"
    /\ tee' = [tee EXCEPT !.main = "dump"]
    /\ UNCHANGED <<perf, tmp>>
    /\ UNCHANGED rcVars
    /\ UNCHANGED vfVars

\* RunCommand.__init__: json.dump of the record into the ledger
DumpRecord ==
    /\ tee # NoTee
    /\ tee.main = "dump"
    /\ tee' = [tee EXCEPT !.main = "done", !.ledger = TRUE]
    /\ UNCHANGED <<perf, tmp>>
    /\ UNCHANGED rcVars
    /\ UNCHANGED vfVars

\* after Popen and StreamTee(p.stdout, sys.stdout, stdout): the child and the
\* tee run, nothing is written yet; the console is open or its reader is gone
InitTee ==
    /\ \E out \in SeqsUpTo({"a", "b"}, MaxOutput), open \in BOOLEAN :
          tee = [output |-> out, written |-> 0, pipe |-> <<>>, exited |-> FALSE,
                 pc |-> "read", read |-> <<>>, log |-> <<>>,
                 console |-> <<>>, capture |-> <<>>, console_open |-> open,
                 main |-> "wait", ledger |-> FALSE]
    /\ perf = NoPerf
    /\ tmp = NoTmp
    /\ RunCommandOff
    /\ VerifierOff

NextTee ==
    \/ ChildWrite
    \/ ChildExit
    \/ TeeRead
    \/ TeeEof
    \/ TeeWriteConsole
    \/ TeeWriteConsoleRaises
    \/ TeeWriteCapture
    \/ Wait
    \/ Join
    \/ DumpRecord

SpecTee == InitTee /\ [][NextTee]_vars

\* C26 (SpecTee): when the ledger record of a test that reports OK inline
\* is written, the child has exited, the tee thread has terminated, every
\* chunk the tee read is in the capture file in the order read, and the
\* capture file holds the child's complete stdout.
C26_CaptureCompleteAtRecord ==
    (tee # NoTee /\ tee.ledger)
    => (/\ tee.exited
        /\ tee.pc = "dead"
        /\ tee.capture = tee.log
        /\ tee.capture = tee.output)

(***************************************************************************)
(* tmpfile(), tmpdir() and ExitStack of common.py: a with block enters     *)
(* temporary files and directories, runs its body, and leaves normally, by *)
(* an exception or by sys.exit.                                            *)
(***************************************************************************)
\* most contexts entered on one ExitStack
MaxContexts == 2

\* how the body of the with block ends
Leaves == {"normal", "exception", "sys.exit"}

\* tmpfile() up to its yield: tempfile.NamedTemporaryFile(delete=False);
\* tmpdir() up to its yield: tempfile.mkdtemp()
Entered(kind) == [kind |-> kind, exists |-> TRUE, exited |-> FALSE]

\* the __exit__ of a context made by contextlib.contextmanager: on a normal
\* exit the generator resumes after its yield (if not ARGS.keep_temp:
\* os.unlink / shutil.rmtree); otherwise the exception is thrown into the
\* generator at its yield, which has no try around it, and nothing after the
\* yield runs
GeneratorExit(ctx, how, keep_temp) ==
    IF how = "normal"
    THEN [ctx EXCEPT !.exists = IF keep_temp THEN @ ELSE FALSE, !.exited = TRUE]
    ELSE [ctx EXCEPT !.exited = TRUE]

\* ExitStack.enter_context(tmpfile()) or (tmpdir()); without an ExitStack,
\* with tmpfile() as f: enters its one context
EnterContext ==
    /\ tmp # NoTmp
    /\ tmp.pc = "enter"
    /\ Len(tmp._objs) < (IF tmp.stack THEN MaxContexts ELSE 1)
    /\ \E kind \in {"tmpfile", "tmpdir"} :
          tmp' = [tmp EXCEPT !._objs = Append(@, Entered(kind))]
    /\ UNCHANGED <<perf, tee>>
    /\ UNCHANGED rcVars
    /\ UNCHANGED vfVars

\* the body of the with block runs and ends
Body ==
    /\ tmp # NoTmp
    /\ tmp.pc = "enter"
    /\ tmp._objs # <<>>
    /\ \E how \in Leaves : tmp' = [tmp EXCEPT !.pc = "exit", !.how = how]
    /\ UNCHANGED <<perf, tee>>
    /\ UNCHANGED rcVars
    /\ UNCHANGED vfVars

\* ExitStack.__exit__: for obj in self._objs: obj.__exit__(*exc_details);
\* without an ExitStack the __exit__ of the one context
ExitContexts ==
    /\ tmp # NoTmp
    /\ tmp.pc = "exit"
    /\ tmp' = [tmp EXCEPT
           !._objs = [i \in 1..Len(@) |-> GeneratorExit(@[i], tmp.how, tmp.keep_temp)],
           !.pc = "exited"]
    /\ UNCHANGED <<perf, tee>>
    /\ UNCHANGED rcVars
    /\ UNCHANGED vfVars

InitTemp ==
    /\ \E keep \in BOOLEAN, stack \in BOOLEAN :
          tmp = [keep_temp |-> keep, stack |-> stack, _objs |-> <<>>,
                 pc |-> "enter", how |-> "normal"]
    /\ perf = NoPerf
    /\ tee = NoTee
    /\ RunCommandOff
    /\ VerifierOff

NextTemp ==
    \/ EnterContext
    \/ Body
    \/ ExitContexts

SpecTemp == InitTemp /\ [][NextTemp]_vars

\* C27 (SpecTemp): once the contexts of a with block have exited, however
\* the body left, every temporary file and directory of the block is
\* deleted when keep-temp is not set and none is deleted when it is set.
C27_TempsDeletedUnlessKept ==
    (tmp # NoTmp /\ tmp.pc = "exited")
    => \A i \in 1..Len(tmp._objs) : tmp._objs[i].exists = tmp.keep_temp

====
